---- MODULE Spec2Model ----
(***************************************************************************)
(* A model of the UNDL client (src/undl/client.py): the MARC field         *)
(* extractor and record projector as operators over Python-like values,   *)
(* and the three caching entry points of UNDLClient as actions.            *)
(***************************************************************************)
EXTENDS Integers, Sequences, FiniteSets, TLC

VARIABLES
    query_cache,    \* UNDLClient.query_cache: prompt -> result object
    id_cache,       \* UNDLClient.id_cache: prompt -> result object
    record_cache,   \* UNDLClient.record_cache: recordId -> result object
    files,          \* the file system: path -> content written last
    httpRequests,   \* number of requests.get calls issued so far
    last,           \* the call made last: its arguments and its outcome
    strict,         \* the installed pymarc raises KeyError on a missing subfield
    rec,            \* the pymarc Record handed to the projector
    out             \* the projector's / extractor's last call and result

vars == <<query_cache, id_cache, record_cache, files, httpRequests, last,
          strict, rec, out>>

clientVars == <<query_cache, id_cache, record_cache, files, httpRequests, last>>

-----------------------------------------------------------------------------
(* Python values.  Every value carries its type in t, so that two values of *)
(* different types are unequal without their payloads being compared.       *)

PyNone == [t |-> "none"]
PyStr(s) == [t |-> "str", v |-> s]
PyInt(n) == [t |-> "int", v |-> n]
PyList(s) == [t |-> "list", v |-> s]
\* a dict in insertion order: k[i] is the i-th key, v[i] its value
PyDict(ks, vs) == [t |-> "dict", k |-> ks, v |-> vs]
\* an exception propagating out of the evaluated expression
Raise(e) == [t |-> "raise", e |-> e]

\* Python truthiness, as used by `if v`, `if not symbol`, `if subfield`
Truthy(x) ==
    CASE x.t = "none" -> FALSE
      [] x.t = "str"  -> x.v # ""
      [] x.t = "int"  -> x.v # 0
      [] x.t = "list" -> x.v # <<>>
      [] x.t = "dict" -> x.k # <<>>

-----------------------------------------------------------------------------
(* pymarc records: a sequence of fields; a control field holds data, a     *)
(* data field an ordered sequence of (code, value) subfields.               *)

ControlField(tag, data) == [tag |-> tag, control |-> TRUE, data |-> data, subfields |-> <<>>]
DataField(tag, subs) == [tag |-> tag, control |-> FALSE, data |-> "", subfields |-> subs]
Sub(c, v) == [code |-> c, value |-> v]

\* the tags Record.subjects() collects (the 6xx family), those in use here
SubjectTags == {"650"}

\* Record.get_fields(tag)
get_fields(record, tag) == SelectSeq(record, LAMBDA f : f.tag = tag)

\* Record.subjects()
subjects(record) == SelectSeq(record, LAMBDA f : f.tag \in SubjectTags)

RECURSIVE JoinValues(_)
JoinValues(subs) ==
    IF subs = <<>> THEN ""
    ELSE IF Len(subs) = 1 THEN subs[1].value
    ELSE subs[1].value \o " " \o JoinValues(Tail(subs))

\* Field.format_field(): a control field's data, or a data field's subfield
\* values joined by single spaces
format_field(x) == IF x.control THEN x.data ELSE JoinValues(x.subfields)

\* the codes of a field, in order of first appearance
RECURSIVE Codes(_)
Codes(subs) ==
    IF subs = <<>> THEN <<>>
    ELSE LET rest == Codes(SelectSeq(Tail(subs), LAMBDA s : s.code # subs[1].code))
         IN <<subs[1].code>> \o rest

ValuesOf(subs, code) ==
    LET sel == SelectSeq(subs, LAMBDA s : s.code = code)
    IN [i \in 1..Len(sel) |-> sel[i].value]

\* Field.subfields_as_dict(): code -> list of values, a plain dict
subfields_as_dict(x) ==
    LET ks == Codes(x.subfields)
    IN [k |-> ks, v |-> [i \in 1..Len(ks) |-> ValuesOf(x.subfields, ks[i])]]

HasKey(d, key) == \E i \in 1..Len(d.k) : d.k[i] = key
Lookup(d, key) == d.v[CHOOSE i \in 1..Len(d.k) : d.k[i] = key]

\* x[subfield]: the first value under the code; on a missing code pymarc >= 5
\* raises KeyError and pymarc < 5 returns None
FieldGetItem(x, code) ==
    LET vs == ValuesOf(x.subfields, code)
    IN IF vs # <<>> THEN PyStr(vs[1])
       ELSE IF strict THEN Raise("KeyError") ELSE PyNone

-----------------------------------------------------------------------------
(* The field extractor and the per-key helpers of the projector.           *)

\* extractFromMARC with the collection flag ignored: always the first value
extractFromMARC_FirstOnly(record, field, subfield, collection) ==
    LET fs == get_fields(record, field)
        result == [i \in 1..Len(fs) |->
                     IF subfield # "" THEN FieldGetItem(fs[i], subfield)
                     ELSE PyStr(format_field(fs[i]))]
    IN IF \E i \in 1..Len(fs) : result[i].t = "raise"
       THEN PyNone
       ELSE IF result # <<>> THEN result[1] ELSE PyList(result)

\* UNDLClient.extractFromMARC; subfield "" stands for None (both are falsy)
extractFromMARC(record, field, subfield, collection) ==
    LET fs == get_fields(record, field)
        result == [i \in 1..Len(fs) |->
                     IF subfield # "" THEN FieldGetItem(fs[i], subfield)
                     ELSE PyStr(format_field(fs[i]))]
    IN IF \E i \in 1..Len(fs) : result[i].t = "raise"
       THEN PyNone                             \* except Exception: return None
       ELSE IF ~collection /\ result # <<>>
            THEN result[1]
            ELSE PyList(result)

StrList(vs) == [i \in 1..Len(vs) |-> PyStr(vs[i])]

\* the loop of UNDLClient._getSubjects over the subject fields left in raw
RECURSIVE SubjectsLoop(_, _)
SubjectsLoop(raw, acc) ==
    IF raw = <<>>
    THEN PyDict(<<PyStr("unbist"), PyStr("unbisn"), PyStr("misc")>>,
                <<PyList(acc.unbist), PyList(acc.unbisn), PyList(acc.misc)>>)
    ELSE LET subject == subfields_as_dict(raw[1])
         IN IF ~HasKey(subject, "2") THEN Raise("KeyError")
            ELSE LET bucket == IF Lookup(subject, "2") = <<"unbist">> THEN "unbist"
                               ELSE IF Lookup(subject, "2") = <<"unbisn">> THEN "unbisn"
                               ELSE "misc"
                 IN IF ~HasKey(subject, "a") THEN Raise("KeyError")
                    ELSE SubjectsLoop(Tail(raw),
                            [acc EXCEPT ![bucket] = @ \o StrList(Lookup(subject, "a"))])

\* UNDLClient._getSubjects
_getSubjects(record) ==
    SubjectsLoop(subjects(record), [unbist |-> <<>>, unbisn |-> <<>>, misc |-> <<>>])

\* d[key] = val on an insertion-ordered dict
DictSet(d, key, val) ==
    IF \E i \in 1..Len(d.k) : d.k[i] = key
    THEN LET i == CHOOSE j \in 1..Len(d.k) : d.k[j] = key
         IN PyDict(d.k, [d.v EXCEPT ![i] = val])
    ELSE PyDict(Append(d.k, key), Append(d.v, val))

Min(a, b) == IF a <= b THEN a ELSE b

\* {lang: link for lang, link in zip(langs, links)}, from position i on
RECURSIVE ZipDict(_, _, _, _)
ZipDict(langs, links, i, d) ==
    IF i > Min(Len(langs), Len(links)) THEN d
    ELSE ZipDict(langs, links, i + 1, DictSet(d, langs[i], links[i]))

\* the dict comprehension of _getDownloads; zip() over None raises TypeError
ZipOrRaise(langs, links) ==
    IF langs.t # "list" \/ links.t # "list" THEN Raise("TypeError")
    ELSE ZipDict(langs.v, links.v, 1, PyDict(<<>>, <<>>))

\* UNDLClient._getDownloads
_getDownloads(record) ==
    ZipOrRaise(extractFromMARC(record, "856", "y", TRUE),
               extractFromMARC(record, "856", "u", TRUE))

\* [v[0] for v in record[tag].subfields_as_dict().values()] if tag in record else []
FirstValues(record, tag) ==
    LET fs == get_fields(record, tag)
    IN IF fs = <<>> THEN PyList(<<>>)
       ELSE LET d == subfields_as_dict(fs[1])
            IN PyList([i \in 1..Len(d.k) |-> PyStr(d.v[i][1])])

\* UNDLClient._getCollections
_getCollections(record) ==
    PyDict(<<PyStr("resource_type"), PyStr("un_bodies")>>,
           <<FirstValues(record, "989"), FirstValues(record, "981")>>)

\* `if not symbol: symbol = fallback`
OrElse(symbol, fallback) == IF ~Truthy(symbol) THEN fallback ELSE symbol

\* UNDLClient._getSymbol
_getSymbol(record) ==
    OrElse(extractFromMARC(record, "191", "a", FALSE),
           extractFromMARC(record, "791", "a", FALSE))

\* the keys of a projected record, in the order of the dict literal
RecordKeys ==
    <<"id", "title", "alt_title", "location", "symbol", "publication_date",
      "summary", "authors", "description", "downloads", "subjects", "agenda",
      "collections", "related_documents">>

\* the dict literal of parseMARCXML's loop body, before the empty fields go
RawProjection(record) ==
    [id                |-> extractFromMARC(record, "001", "", FALSE),
     title             |-> extractFromMARC(record, "245", "", FALSE),
     alt_title         |-> extractFromMARC(record, "239", "", FALSE),
     location          |-> extractFromMARC(record, "260", "a", FALSE),
     symbol            |-> _getSymbol(record),
     publication_date  |-> extractFromMARC(record, "269", "", FALSE),
     summary           |-> extractFromMARC(record, "520", "", FALSE),
     authors           |-> extractFromMARC(record, "710", "a", TRUE),
     description       |-> extractFromMARC(record, "300", "", FALSE),
     downloads         |-> _getDownloads(record),
     subjects          |-> _getSubjects(record),
     agenda            |-> extractFromMARC(record, "991", "", FALSE),
     collections       |-> _getCollections(record),
     related_documents |-> extractFromMARC(record, "993", "", TRUE)]

\* record = {k: v for k, v in record.items() if v}
RemoveEmpty(raw) ==
    LET ks == SelectSeq(RecordKeys, LAMBDA k : Truthy(raw[k]))
    IN PyDict([i \in 1..Len(ks) |-> PyStr(ks[i])], [i \in 1..Len(ks) |-> raw[ks[i]]])

\* the exception a helper let through while the dict literal was built, or
\* the record without its empty fields
RemoveEmptyOrRaise(raw) ==
    IF raw.downloads.t = "raise" THEN raw.downloads
    ELSE IF raw.subjects.t = "raise" THEN raw.subjects
    ELSE RemoveEmpty(raw)

\* one iteration of parseMARCXML's loop: the projected record, or the
\* exception a helper let through
ProjectRecord(record) == RemoveEmptyOrRaise(RawProjection(record))

\* AppendRecords with the append left out
AppendRecords_Dropped(head, tail) ==
    IF head.t = "raise" THEN head ELSE tail

\* output["records"].append(record), unless an iteration raised
AppendRecords(head, tail) ==
    IF head.t = "raise" THEN head
    ELSE IF tail.t = "raise" THEN tail
    ELSE PyList(<<head>> \o tail.v)

\* the loop of parseMARCXML: the list of projected records, or the exception
RECURSIVE ProjectAll(_)
ProjectAll(records) ==
    IF records = <<>> THEN PyList(<<>>)
    ELSE AppendRecords(ProjectRecord(records[1]), ProjectAll(Tail(records)))

\* d[key] and `key in d` on a dict value with string keys
Has(d, key) == \E i \in 1..Len(d.k) : d.k[i] = PyStr(key)
Get(d, key) == d.v[CHOOSE i \in 1..Len(d.k) : d.k[i] = PyStr(key)]

-----------------------------------------------------------------------------
(* The projector on its own: a record drawn from a bounded pool of fields, *)
(* then extractFromMARC and the projection applied to it.                   *)

\* the longest record drawn, in fields
MaxFields == 2

FieldPool ==
    { ControlField("001", "515307"),
      DataField("245", <<Sub("a", "Women"), Sub("b", "peace")>>),
      DataField("650", <<Sub("2", "unbist"), Sub("a", "WOMEN")>>),
      DataField("650", <<Sub("2", "unbisn"), Sub("a", "01.01")>>),
      DataField("650", <<Sub("2", "local"), Sub("a", "X")>>),
      DataField("650", <<Sub("a", "X")>>),
      DataField("650", <<Sub("2", "unbist")>>),
      DataField("856", <<Sub("u", "url-en"), Sub("y", "E")>>),
      DataField("856", <<Sub("u", "url-fr"), Sub("y", "F")>>),
      DataField("856", <<Sub("u", "url-es")>>),
      DataField("856", <<Sub("y", "R")>>),
      DataField("989", <<Sub("a", "Report"), Sub("b", "Other")>>),
      DataField("981", <<Sub("a", "GA")>>),
      DataField("710", <<Sub("a", "UN")>>),
      DataField("710", <<Sub("b", "DPO")>>),
      DataField("191", <<Sub("a", "A/RES/1")>>),
      DataField("791", <<Sub("a", "S/1")>>) }

Records == UNION { [1..n -> FieldPool] : n \in 0..MaxFields }

\* the (tag, subfield) pairs extractFromMARC is tried on
ExtractTags == {"001", "245", "239", "710", "856"}
ExtractSubfields == {"", "a", "u"}

\* nothing extracted or projected yet; no call made yet
Idle == [op |-> "none"]
NoCall == [op |-> "none"]

\* an empty dict: a fresh cache, an empty file system
EmptyMap == [k \in {} |-> PyNone]

\* UNDLClient.__init__
ClientInit ==
    /\ query_cache = EmptyMap
    /\ id_cache = EmptyMap
    /\ record_cache = EmptyMap
    /\ files = EmptyMap
    /\ httpRequests = 0
    /\ last = NoCall

InitMARC ==
    /\ ClientInit
    /\ strict \in BOOLEAN
    /\ rec \in Records
    /\ out = Idle

\* a call extractFromMARC(rec, field, subfield, collection)
Extract(field, subfield, collection) ==
    /\ out = Idle
    /\ out' = [op |-> "extract", field |-> field, subfield |-> subfield,
               collection |-> collection,
               result |-> extractFromMARC(rec, field, subfield, collection)]
    /\ UNCHANGED <<clientVars, strict, rec>>

\* one iteration of parseMARCXML's loop on rec
Project ==
    /\ out = Idle
    /\ out' = [op |-> "parse", result |-> ProjectRecord(rec)]
    /\ UNCHANGED <<clientVars, strict, rec>>

ExtractAny ==
    \E field \in ExtractTags, subfield \in ExtractSubfields, collection \in BOOLEAN :
        Extract(field, subfield, collection)

NextMARC == ExtractAny \/ Project

SpecMARC == InitMARC /\ [][NextMARC]_vars

-----------------------------------------------------------------------------
(* The search client: what the server may answer, the file system, the     *)
(* shared request routines and the three cached entry points.              *)

\* consts.API_BASE_URL and consts.BASE_URL
API_BASE_URL == "https://digitallibrary.un.org/api/v1/search"
BASE_URL == "https://digitallibrary.un.org/search"

\* Path.home() / ".undl" / "tmp.xml"
TmpPath == "~/.undl/tmp.xml"

\* the most requests.get calls a behaviour issues
MaxRequests == 2

Prompts == {"Women in peacekeeping", "climate"}
RecordIds == {"515307", "42"}
OutputFiles == {PyNone, PyStr("downloads/test.json")}
\* the other arguments of query: the defaults, and all three given
QueryOptions ==
    {[outputFormat |-> "xml", lang |-> "en", searchId |-> PyNone],
     [outputFormat |-> "marcxml", lang |-> "fr", searchId |-> PyStr("s1")]}
\* apiKey, and what os.getenv("UN_API") gave when the module was loaded
ApiKeys == {PyNone, PyStr("secret")}

\* the records a server answer may hold: the catalogue's record of an id
ServerRecord(id) ==
    <<ControlField("001", id),
      DataField("245", <<Sub("a", "Women"), Sub("b", "peace")>>),
      DataField("650", <<Sub("2", "unbist"), Sub("a", "WOMEN")>>)>>
Rec515307 == ServerRecord("515307")
\* a record whose download link carries no language
Rec42 ==
    <<ControlField("001", "42"), DataField("856", <<Sub("u", "url-en")>>)>>

\* a request that fails in transport, a body that is not the expected
\* document, or a well-formed answer
XmlResponses ==
    {[kind |-> "transport_error"], [kind |-> "garbage"]}
    \cup [kind : {"xml"}, total : {2}, search_id : {"s9"}, collection : {<<Rec515307>>, <<Rec515307, Rec42>>}]

JsonResponses ==
    {[kind |-> "transport_error"], [kind |-> "garbage"],
     [kind |-> "json",
      body |-> PyDict(<<PyStr("total"), PyStr("hits")>>,
                      <<PyInt(2), PyList(<<PyStr("515307"), PyStr("42")>>)>>)],
     [kind |-> "json",
      body |-> PyDict(<<PyStr("error")>>, <<PyStr("forbidden")>>)]}

\* m[key] = val on a cache or on the file system
Put(m, key, val) == [k \in DOMAIN m \cup {key} |-> IF k = key THEN val ELSE m[k]]

\* json.dump(value, f, indent=4, ensure_ascii=False): the JSON document written;
\* a None key is written as the string "null"
RECURSIVE ToJSON(_)
ToJSON(x) ==
    CASE x.t = "none" -> [t |-> "null"]
      [] x.t = "str"  -> [t |-> "string", v |-> x.v]
      [] x.t = "int"  -> [t |-> "number", v |-> x.v]
      [] x.t = "list" -> [t |-> "array", v |-> [i \in 1..Len(x.v) |-> ToJSON(x.v[i])]]
      [] x.t = "dict" ->
            [t |-> "object",
             k |-> [i \in 1..Len(x.k) |-> IF x.k[i].t = "none" THEN "null" ELSE x.k[i].v],
             v |-> [i \in 1..Len(x.v) |-> ToJSON(x.v[i])]]

\* a Python object: the value and the identity it got when it was built
Obj(n, val) == [t |-> "obj", id |-> n, val |-> val]

\* Dump with the write left out
Dump_NoWrite(output, outputFile, fs, writeOk) == [result |-> output, files |-> fs]

\* `if outputFile: json.dump(output, f, ...)`, then `return output`
Dump(output, outputFile, fs, writeOk) ==
    IF Truthy(outputFile)
    THEN IF writeOk
         THEN [result |-> output, files |-> Put(fs, outputFile.v, ToJSON(output))]
         ELSE [result |-> Raise("OSError"), files |-> fs]
    ELSE [result |-> output, files |-> fs]

\* the end of parseMARCXML, given what its loop produced
DumpOutput(projected, outputFile, total, searchId, fs, writeOk) ==
    IF projected.t = "raise" THEN [result |-> projected, files |-> fs]
    ELSE Dump(PyDict(<<PyStr("total"), PyStr("search_id"), PyStr("records")>>,
                     <<total, searchId, projected>>),
              outputFile, fs, writeOk)

\* UNDLClient.parseMARCXML on the records of the scratch file: the result (or
\* the exception) and the file system it leaves; writeOk: open(outputFile, "w")
\* succeeds
parseMARCXML(records, outputFile, total, searchId, fs, writeOk) ==
    DumpOutput(ProjectAll(records), outputFile, total, searchId, fs, writeOk)

\* logger.success(f"... {len(parsedResponse['hits'])} ..."), after the dump
HitsLogged(r) ==
    IF r.result.t # "raise" /\ ~Has(r.result, "hits")
    THEN [result |-> Raise("KeyError"), files |-> r.files]
    ELSE r

\* the request UNDLClient._query sends
ApiRequest(params, apiKey, searchId) ==
    [url |-> API_BASE_URL,
     params |-> IF Truthy(searchId) THEN DictSet(params, PyStr("search_id"), searchId)
                ELSE params,
     headers |-> [content_type |-> "application/xml",
                  Authorization |-> "Token " \o (IF apiKey.t = "none" THEN "None" ELSE apiKey.v)]]

\* UNDLClient._query after requests.get: the result (or the exception) and
\* the file system it leaves, for the server's answer resp
_query(params, outputFormat, outputFile, apiKey, searchId, resp, fs, writeOk) ==
    IF resp.kind = "transport_error" THEN [result |-> Raise("ConnectionError"), files |-> fs]
    ELSE IF outputFormat = "marcxml"
    THEN IF resp.kind # "xml" THEN [result |-> Raise("ParseError"), files |-> fs]
         ELSE parseMARCXML(resp.collection, outputFile, PyInt(resp.total),
                           PyStr(resp.search_id),
                           Put(fs, TmpPath, [t |-> "xml", v |-> resp.collection]), writeOk)
    ELSE IF outputFormat = "json"
    THEN IF resp.kind # "json" THEN [result |-> Raise("JSONDecodeError"), files |-> fs]
         ELSE HitsLogged(Dump(resp.body, outputFile, fs, writeOk))
    ELSE [result |-> Raise("NotImplementedError"), files |-> fs]

\* UNDLClient._queryUnofficial after requests.get
_queryUnofficial(params, outputFormat, outputFile, resp, fs, writeOk) ==
    IF resp.kind = "transport_error" THEN [result |-> Raise("ConnectionError"), files |-> fs]
    ELSE IF outputFormat # "marcxml"
    THEN [result |-> Raise("NotImplementedError"), files |-> Put(fs, TmpPath, [t |-> "text"])]
    ELSE IF resp.kind # "xml"
    THEN [result |-> Raise("SAXParseException"), files |-> Put(fs, TmpPath, [t |-> "text"])]
    ELSE parseMARCXML(resp.collection, outputFile, PyNone, PyNone,
                      Put(fs, TmpPath, [t |-> "xml", v |-> resp.collection]), writeOk)

\* what the unofficial search endpoint may answer when asked for recordId: a
\* failure, no record (an id the catalogue does not hold) or the id's record
UnofficialResponses(recordId) ==
    {[kind |-> "transport_error"], [kind |-> "garbage"],
     [kind |-> "xml", collection |-> <<>>],
     [kind |-> "xml", collection |-> <<ServerRecord(recordId)>>]}

NoRequest == [url |-> "none"]

\* the call ends: its record, the caches' owner stores res under key on return
Call(op, key, outputFile, apiKey, hit, request, res) ==
    [op |-> op, key |-> key, outputFile |-> outputFile, apiKey |-> apiKey,
     hit |-> hit, request |-> request,
     outcome |-> IF res.t = "raise" THEN "raised" ELSE "returned",
     ret |-> res]

\* open(outputFile, "w") is reached only with an output path; it may fail
WriteOutcomes(outputFile) == IF Truthy(outputFile) THEN BOOLEAN ELSE {TRUE}

\* the params dict each entry point builds
QueryParams(prompt, outputFormat, lang) ==
    PyDict(<<PyStr("p"), PyStr("format"), PyStr("ln")>>,
           <<PyStr(prompt), PyStr(outputFormat), PyStr(lang)>>)
IdsParams(prompt) ==
    PyDict(<<PyStr("p"), PyStr("ln")>>, <<PyStr(prompt), PyStr("en")>>)
ByIdParams(recordId) ==
    PyDict(<<PyStr("recid"), PyStr("of"), PyStr("c")>>,
           <<PyStr(recordId), PyStr("xm"), PyStr("Resource Type")>>)

\* a request was issued and the request routine ended as r: the request is
\* counted, the files are as the routine left them, and the call returns the
\* new result object or lets the exception through
Requested(op, key, outputFile, apiKey, request, r) ==
    /\ httpRequests' = httpRequests + 1
    /\ files' = r.files
    /\ last' = Call(op, key, outputFile, apiKey, FALSE, request,
                    IF r.result.t = "raise" THEN r.result
                    ELSE Obj(httpRequests + 1, r.result))

\* Stored with the store reached whatever the request routine did
Stored_Always(cache, key, res) == Put(cache, key, res)

\* Stored with the cache rebuilt around the new entry
Stored_Rebuilt(cache, key, res) ==
    IF res.t = "raise" THEN cache ELSE [k \in {key} |-> res]

\* self.<cache>[key] = result, reached only when the request routine returned
Stored(cache, key, res) == IF res.t = "raise" THEN cache ELSE Put(cache, key, res)

\* UNDLClient.query, lines 67-88: the prompt is not in the cache
query_miss(prompt, outputFormat, lang, outputFile, searchId, apiKey) ==
    /\ httpRequests < MaxRequests
    /\ \E resp \in XmlResponses, writeOk \in WriteOutcomes(outputFile) :
        /\ Requested("query", prompt, outputFile, apiKey,
                     ApiRequest(QueryParams(prompt, outputFormat, lang), apiKey, searchId),
                     _query(QueryParams(prompt, outputFormat, lang), "marcxml", outputFile,
                            apiKey, searchId, resp, files, writeOk))
        /\ query_cache' = Stored(query_cache, prompt, last'.ret)
        /\ UNCHANGED <<id_cache, record_cache>>

\* query without the cache check of lines 63-65
query_NoCacheCheck(prompt, outputFormat, lang, outputFile, searchId, apiKey) ==
    /\ query_miss(prompt, outputFormat, lang, outputFile, searchId, apiKey)
    /\ UNCHANGED <<strict, rec, out>>

\* UNDLClient.query
query(prompt, outputFormat, lang, outputFile, searchId, apiKey) ==
    /\ IF prompt \in DOMAIN query_cache
       THEN /\ last' = Call("query", prompt, outputFile, apiKey, TRUE, NoRequest,
                            query_cache[prompt])
            /\ UNCHANGED <<query_cache, id_cache, record_cache, files, httpRequests>>
       ELSE query_miss(prompt, outputFormat, lang, outputFile, searchId, apiKey)
    /\ UNCHANGED <<strict, rec, out>>

\* UNDLClient.getAllRecordIds, lines 129-148: the prompt is not in the cache
getAllRecordIds_miss(prompt, outputFile) ==
    /\ httpRequests < MaxRequests
    /\ \E resp \in JsonResponses, writeOk \in WriteOutcomes(outputFile),
          UN_API \in ApiKeys :
        /\ Requested("getAllRecordIds", prompt, outputFile, UN_API,
                     ApiRequest(IdsParams(prompt), UN_API, PyNone),
                     _query(IdsParams(prompt), "json", outputFile, UN_API, PyNone,
                            resp, files, writeOk))
        /\ id_cache' = Stored(id_cache, prompt, last'.ret)
        /\ UNCHANGED <<query_cache, record_cache>>

\* UNDLClient.getAllRecordIds
getAllRecordIds(prompt, outputFile) ==
    /\ IF prompt \in DOMAIN id_cache
       THEN /\ last' = Call("getAllRecordIds", prompt, outputFile, PyNone, TRUE, NoRequest,
                            id_cache[prompt])
            /\ UNCHANGED <<query_cache, id_cache, record_cache, files, httpRequests>>
       ELSE getAllRecordIds_miss(prompt, outputFile)
    /\ UNCHANGED <<strict, rec, out>>

\* UNDLClient.queryById, lines 181-200: the id is not in the cache
queryById_miss(recordId, outputFile) ==
    /\ httpRequests < MaxRequests
    /\ \E resp \in UnofficialResponses(recordId), writeOk \in WriteOutcomes(outputFile) :
        /\ Requested("queryById", recordId, outputFile, PyNone,
                     [url |-> BASE_URL, params |-> ByIdParams(recordId)],
                     _queryUnofficial(ByIdParams(recordId), "marcxml", outputFile,
                                      resp, files, writeOk))
        /\ record_cache' = Stored(record_cache, recordId, last'.ret)
        /\ UNCHANGED <<query_cache, id_cache>>

\* UNDLClient.queryById
queryById(recordId, outputFile) ==
    /\ IF recordId \in DOMAIN record_cache
       THEN /\ last' = Call("queryById", recordId, outputFile, PyNone, TRUE, NoRequest,
                            record_cache[recordId])
            /\ UNCHANGED <<query_cache, id_cache, record_cache, files, httpRequests>>
       ELSE queryById_miss(recordId, outputFile)
    /\ UNCHANGED <<strict, rec, out>>

\* UNDLClient.__init__, with the installation the client runs on
Init ==
    /\ ClientInit
    /\ strict \in BOOLEAN
    /\ rec = <<>>
    /\ out = Idle

CallQuery ==
    \E prompt \in Prompts, opt \in QueryOptions, outputFile \in OutputFiles,
       apiKey \in ApiKeys :
        query(prompt, opt.outputFormat, opt.lang, outputFile, opt.searchId, apiKey)

CallGetAllRecordIds ==
    \E prompt \in Prompts, outputFile \in OutputFiles : getAllRecordIds(prompt, outputFile)

CallQueryById ==
    \E recordId \in RecordIds, outputFile \in OutputFiles : queryById(recordId, outputFile)

Next == CallQuery \/ CallGetAllRecordIds \/ CallQueryById

Spec == Init /\ [][Next]_vars

-----------------------------------------------------------------------------
(* Properties of the extractor and the projector (SpecMARC).               *)

\* the field instance carries the requested subfield (none requested: yes)
Carries(x, subfield) ==
    subfield = "" \/ \E i \in 1..Len(x.subfields) : x.subfields[i].code = subfield

\* what one field instance contributes: its first value under the subfield,
\* its whole text when no subfield is asked for, None when the subfield is absent
InstanceValue(x, subfield) ==
    IF subfield = "" THEN PyStr(format_field(x))
    ELSE IF ~Carries(x, subfield) THEN PyNone
    ELSE LET i == CHOOSE j \in 1..Len(x.subfields) :
                    /\ x.subfields[j].code = subfield
                    /\ \A h \in 1..(j - 1) : x.subfields[h].code # subfield
         IN PyStr(x.subfields[i].value)

Matching == get_fields(rec, out.field)

\* C3: a projected record holds no empty value; a record without subject
\* fields has no `subjects` key and one without tags 989 and 981 has no
\* `collections` key.
C3_NoEmptyValues ==
    (out.op = "parse" /\ out.result.t = "dict") =>
        /\ \A i \in 1..Len(out.result.v) : Truthy(out.result.v[i])
        /\ (subjects(rec) = <<>> => ~Has(out.result, "subjects"))
        /\ (get_fields(rec, "989") = <<>> /\ get_fields(rec, "981") = <<>>
                => ~Has(out.result, "collections"))

\* C4: the projection never raises, whatever fields the record has, and a
\* malformed subject or 856 field costs no key other than its own.
C4_ProjectionNeverAborts ==
    out.op = "parse" =>
        /\ out.result.t = "dict"
        /\ \A i \in 1..Len(RecordKeys) :
             LET k == RecordKeys[i]
             IN (k \notin {"subjects", "downloads"} /\ Truthy(RawProjection(rec)[k]))
                    => (Has(out.result, k) /\ Get(out.result, k) = RawProjection(rec)[k])

\* C6: without collection, extractFromMARC returns the first matching
\* instance's value, and None when no instance matches the tag.
C6_FirstValueOrNone ==
    (out.op = "extract" /\ ~out.collection) =>
        IF Matching = <<>> THEN out.result = PyNone
        ELSE out.result = InstanceValue(Matching[1], out.subfield)

\* C7 as claimed: with collection, the result is a sequence with one entry per
\* matching instance, also when an instance lacks the requested subfield.
C7_LengthAlways ==
    (out.op = "extract" /\ out.collection) =>
        /\ out.result.t = "list"
        /\ Len(out.result.v) = Len(Matching)

\* C7 as amended: with collection, when every matching instance carries the
\* requested subfield, the result is the sequence of the instances' values, one
\* per instance and in field order.
C7_LengthWhenCarried ==
    (/\ out.op = "extract" /\ out.collection
     /\ \A i \in 1..Len(Matching) : Carries(Matching[i], out.subfield)) =>
        /\ out.result.t = "list"
        /\ Len(out.result.v) = Len(Matching)
        /\ \A i \in 1..Len(Matching) :
              out.result.v[i] = InstanceValue(Matching[i], out.subfield)

C7_Witness ==
    /\ out.op = "extract" /\ out.collection /\ out.field = "856" /\ out.subfield = "u"
    /\ out.result = PyList(<<PyStr("url-en"), PyStr("url-fr")>>)

-----------------------------------------------------------------------------
(* Properties of the client (Spec).                                         *)

Returned(op) == last.op = op /\ last.outcome = "returned"

\* the step is a call of op with a key the cache holds: no request is issued
\* and the object the cache holds is returned
HitStep(op, cache) ==
    (last'.op = op /\ last'.key \in DOMAIN cache) =>
        /\ httpRequests' = httpRequests
        /\ last'.outcome = "returned"
        /\ last'.ret = cache[last'.key]

\* C1: a call whose key is in its cache returns the cached object itself and
\* issues no request, whatever its other arguments are; for query,
\* queryById and getAllRecordIds alike.
C1_CacheHit ==
    [][/\ HitStep("query", query_cache)
       /\ HitStep("queryById", record_cache)
       /\ HitStep("getAllRecordIds", id_cache)]_vars

\* a query answered from the cache, whose output path was never written
C1_Witness ==
    /\ Returned("query") /\ last.hit /\ Truthy(last.outputFile)
    /\ last.ret = query_cache[last.key]
    /\ httpRequests = 1
    /\ last.outputFile.v \notin DOMAIN files

\* the result returned last is what the output path holds
Written ==
    /\ last.outputFile.v \in DOMAIN files
    /\ files[last.outputFile.v] = ToJSON(last.ret.val)

\* C2 as claimed: a call with an output path that returns has written its
\* result there, cache hit or not.
C2_AlwaysWritten ==
    (last.op # "none" /\ last.outcome = "returned" /\ Truthy(last.outputFile)) => Written

\* C2 as amended: a call with an output path whose key was not in the cache
\* and that returns has written its result there.
C2_WrittenOnMiss ==
    (last.op # "none" /\ last.outcome = "returned" /\ Truthy(last.outputFile) /\ ~last.hit)
        => Written

C2_Witness ==
    /\ Returned("getAllRecordIds") /\ ~last.hit /\ Truthy(last.outputFile) /\ Written

\* the request of the last call did not get through to the server
TransportFailed == last.outcome = "raised" /\ last.ret.e = "ConnectionError"

\* C5: query without an API key returns None and does not raise (a transport
\* failure, which the key has no part in, set aside).
C5_MissingKeyReturnsNone ==
    (last.op = "query" /\ ~last.hit /\ last.apiKey = PyNone /\ ~TransportFailed) =>
        /\ last.outcome = "returned"
        /\ last.ret.val = PyNone

\* the records of a Query Result
RecordsOf(obj) == Get(obj.val, "records").v

\* the 001 field's data of a raw record
ControlNumber(record) == get_fields(record, "001")[1].data

\* C9 as claimed: queryById returns a result with exactly one record, whose id
\* is the id asked for.
C9_ExactlyOne ==
    Returned("queryById") =>
        /\ Len(RecordsOf(last.ret)) = 1
        /\ Has(RecordsOf(last.ret)[1], "id")
        /\ Get(RecordsOf(last.ret)[1], "id") = PyStr(last.key)

\* C9 as amended: queryById returns one projected record per record of the
\* server's answer, each with the id of its 001 field: exactly one record,
\* with the id asked for, when the server answers with that record, and none
\* when it answers with no record.
C9_OnePerAnswered ==
    (Returned("queryById") /\ ~last.hit) =>
        LET answer == files[TmpPath].v
        IN /\ Len(RecordsOf(last.ret)) = Len(answer)
           /\ \A i \in 1..Len(answer) :
                 /\ Has(RecordsOf(last.ret)[i], "id")
                 /\ Get(RecordsOf(last.ret)[i], "id") = PyStr(ControlNumber(answer[i]))
           /\ (answer = <<ServerRecord(last.key)>> =>
                 /\ Len(RecordsOf(last.ret)) = 1
                 /\ Get(RecordsOf(last.ret)[1], "id") = PyStr(last.key))

C9_Witness ==
    /\ Returned("queryById") /\ ~last.hit /\ last.key = "515307"
    /\ Len(RecordsOf(last.ret)) = 1
    /\ Get(RecordsOf(last.ret)[1], "id") = PyStr("515307")
    /\ Truthy(last.outputFile) /\ Written

\* every entry of the cache is still there, with the same object
Kept(cache, cacheNext) ==
    \A k \in DOMAIN cache : k \in DOMAIN cacheNext /\ cacheNext[k] = cache[k]

\* C10: no call evicts or replaces an entry of any of the three caches.
C10_NeverReplaced ==
    [][/\ Kept(query_cache, query_cache')
       /\ Kept(id_cache, id_cache')
       /\ Kept(record_cache, record_cache')]_vars

\* an entry stored by the first request is still there after a later request
\* for the same prompt's record ids and a repeated query
C10_Witness ==
    /\ httpRequests = 2
    /\ \E p \in Prompts :
          /\ p \in DOMAIN query_cache /\ query_cache[p].id = 1
          /\ p \in DOMAIN id_cache /\ id_cache[p].id = 2
          /\ last.op = "query" /\ last.key = p /\ last.hit

\* the two caches differ at most in the entry of key
OnlyKey(cache, cacheNext, key) ==
    \A k \in (DOMAIN cache \cup DOMAIN cacheNext) \ {key} :
        k \in DOMAIN cache /\ k \in DOMAIN cacheNext /\ cacheNext[k] = cache[k]

\* the step is a call of op, whose own cache is cache: it changes at most its
\* key's entry there and no other cache; if it raises it changes no cache and
\* its key is still not cached; and a call whose key is not cached issues a
\* request
OwnCacheStep(op, cache, cacheNext, other1, other1Next, other2, other2Next) ==
    last'.op = op =>
        /\ OnlyKey(cache, cacheNext, last'.key)
        /\ other1Next = other1 /\ other2Next = other2
        /\ (last'.outcome = "raised" =>
                cacheNext = cache /\ last'.key \notin DOMAIN cacheNext)
        /\ (last'.key \notin DOMAIN cache => httpRequests' = httpRequests + 1)

\* C11: a call changes at most the entry of its own key in its own cache and
\* leaves the other two caches alone; a call that fails leaves all three
\* unchanged, so that the same call made again issues a new request.
C11_IndependentCaches ==
    [][/\ OwnCacheStep("query", query_cache, query_cache',
                       id_cache, id_cache', record_cache, record_cache')
       /\ OwnCacheStep("getAllRecordIds", id_cache, id_cache',
                       query_cache, query_cache', record_cache, record_cache')
       /\ OwnCacheStep("queryById", record_cache, record_cache',
                       query_cache, query_cache', id_cache, id_cache')]_vars

\* a query that failed on writing its output file, after a first query was
\* cached: the first entry is all the caches hold
C11_Witness ==
    /\ httpRequests = 2
    /\ last.op = "query" /\ last.outcome = "raised" /\ last.ret.e = "OSError"
    /\ last.key \notin DOMAIN query_cache
    /\ \E p \in Prompts : DOMAIN query_cache = {p} /\ query_cache[p].id = 1
    /\ DOMAIN id_cache = {} /\ DOMAIN record_cache = {}

\* the values of one subfield code collected across the field instances that
\* carry it, in record order
Collected(fs, code) ==
    LET sel == SelectSeq(fs, LAMBDA x : Carries(x, code))
    IN [i \in 1..Len(sel) |-> InstanceValue(sel[i], code)]

\* the dict d maps the i-th of langs to the i-th of links, up to the shorter,
\* and has no other key
PairsUp(d, langs, links) ==
    /\ d.t = "dict"
    /\ \A j \in 1..Len(d.k) :
          \E i \in 1..Min(Len(langs), Len(links)) : d.k[j] = langs[i]
    /\ \A i \in 1..Min(Len(langs), Len(links)) :
          /\ \E j \in 1..Len(d.k) : d.k[j] = langs[i]
          /\ \A j \in 1..Len(d.k) : d.k[j] = langs[i] => d.v[j] = links[i]

\* C12: the `downloads` value of a projected record maps the i-th `y` value
\* collected across the tag-856 instances to the i-th `u` value collected
\* across them, truncated to the shorter of the two sequences.
C12_DownloadsPairByPosition ==
    LET langs == Collected(get_fields(rec, "856"), "y")
        links == Collected(get_fields(rec, "856"), "u")
    IN (/\ out.op = "parse"
        /\ Min(Len(langs), Len(links)) > 0
        /\ _getSubjects(rec).t # "raise")
          => /\ out.result.t = "dict"
             /\ Has(out.result, "downloads")
             /\ PairsUp(Get(out.result, "downloads"), langs, links)

====
